---- MODULE Spec2Model ----
(***************************************************************************)
(* The stamina simulation of the Active Stamina Bar prototype.             *)
(*                                                                         *)
(* The repository holds two versions of the App component:                 *)
(*   "single"  src/App.tsx           one bar, exhaustion ceiling, fixed    *)
(*                                   recovery rate                         *)
(*   "dual"    src/unnamed/part_000  two bars, max decays, recovery rate   *)
(*                                   is a slider                           *)
(* `variant` picks one of them in Init and never changes.                  *)
(*                                                                         *)
(* Numbers.  The code computes in floating point.  The model computes the  *)
(* same expressions exactly, on a grid:                                    *)
(*   - a timestamp is an integer number of milliseconds;                   *)
(*   - a rate is an integer number of tenths of a point per second (the    *)
(*     finest slider step is 0.1);                                         *)
(*   - a stamina value is an integer number of 1/(RateDenom*MsPerSecond)   *)
(*     points, so that rate * (t1 - t0) / 1000 is  rate * (t1 - t0)  in    *)
(*     stamina units, with no rounding.                                    *)
(*                                                                         *)
(* React.  A key event is a discrete event: the state update, the render   *)
(* and the effect that copies isSpacePressed into isSpacePressedRef run    *)
(* before the next frame callback, so each handler is one action.  The     *)
(* functional updater passed to setStamina is modelled as running within   *)
(* the frame callback that queued it.                                      *)
(***************************************************************************)
EXTENDS Integers, FiniteSets, Sequences, TLC

VARIABLES
    variant,            \* which of the two App components runs
    stamina,            \* useState<StaminaState>
    isSpacePressed,     \* useState(false)
    isSpacePressedRef,  \* useRef(isSpacePressed).current
    lastEdge,           \* what the last press or release of Space delivered to
                        \* the window asks for: TRUE after a press that is no
                        \* repeat, FALSE after a release and before any key
    config,             \* useState<ConfigState>
    previousTime,       \* useRef<number>().current : <<>> (undefined) or <<t>>
    animationFrameId,   \* useRef<number>().current : 0 (undefined) or a handle
    scheduled,          \* the host's list of frame callbacks requested and not
                        \* yet run or cancelled: <<[id, config]>>, config being
                        \* the one the callback's gameLoop closed over
    now,                \* the timestamp of the last frame the host delivered
    hist,               \* the last operation, the stamina and the baseline it
                        \* started from, and whether it is a reset that
                        \* follows a reset
    regressions,        \* how many frames carried a timestamp before `now`
    decayed             \* primary decay charged since construction or the last
                        \* reset, capped at the full bar

vars == <<variant, stamina, isSpacePressed, isSpacePressedRef, lastEdge, config,
          previousTime, animationFrameId, scheduled, now, regressions, hist,
          decayed>>

-----------------------------------------------------------------------------
(* Program constants *)

TOTAL_STAMINA == 100

ACTION_STAMINA_RECOVERY_RATE == 20

MsPerSecond == 1000

RateDenom == 10

(* One point of stamina in model units; the full bar. *)
Point == RateDenom * MsPerSecond

Cap == TOTAL_STAMINA * Point

Undefined == <<>>

-----------------------------------------------------------------------------
(* Bounds *)

MaxTick == 3

MaxOvershoot == 10

MaxRegressions == 1

(* The timestamps a frame can carry: 0 s, 1 s, 11 s, 12 s, 22 s, ..., so that
   steps of one second occur, steps long enough to empty a bar occur, and a
   step can follow the one that emptied the bar. *)
Times == {(11 * (k \div 2) + (k % 2)) * MsPerSecond : k \in 0..MaxTick}

Variants == {"single", "dual"}

KeyCodes == {"Space", "KeyA"}

-----------------------------------------------------------------------------
(* Math.max, Math.min *)

Max(a, b) == IF a >= b THEN a ELSE b

Min(a, b) == IF a <= b THEN a ELSE b

(* The two bars of a StaminaState, whichever the variant calls them. *)
Primary(s) == IF variant = "single" THEN s.exhaustion ELSE s.max

Secondary(s) == IF variant = "single" THEN s.action ELSE s.current

FullStamina ==
    IF variant = "single"
    THEN [exhaustion |-> Cap, action |-> Cap]
    ELSE [max |-> Cap, current |-> Cap]

DefaultConfig ==
    IF variant = "single"
    THEN [exhaustionDecay |-> 5, actionStaminaDecay |-> 30]
    ELSE [maxStaminaDecay |-> 15, currentStaminaDecay |-> 300,
          currentStaminaRecovery |-> 200]

(* The rates a step reads from a config, whichever the variant calls them. *)
DecayRate(c) == IF variant = "single" THEN c.exhaustionDecay ELSE c.maxStaminaDecay

DrainRate(c) == IF variant = "single" THEN c.actionStaminaDecay ELSE c.currentStaminaDecay

RecoveryRate(c) ==
    IF variant = "single" THEN ACTION_STAMINA_RECOVERY_RATE ELSE c.currentStaminaRecovery


-----------------------------------------------------------------------------
(* The sliders: min, max of each <input type="range">, in tenths. *)

SliderNames ==
    IF variant = "single"
    THEN {"exhaustionDecay", "actionStaminaDecay"}
    ELSE {"maxStaminaDecay", "currentStaminaDecay", "currentStaminaRecovery"}

SliderMax(name) ==
    CASE name = "exhaustionDecay"        -> 100
      [] name = "actionStaminaDecay"     -> 150
      [] name = "maxStaminaDecay"        -> 100
      [] name = "currentStaminaDecay"    -> 1000
      [] name = "currentStaminaRecovery" -> 1000

(* The slider positions the model tries: both ends and the default. *)
SliderValues(name) == {0, DefaultConfig[name], SliderMax(name)}

(* Values an event can carry that no slider position gives. *)
WideValues(name) == {-50, DefaultConfig[name], SliderMax(name) + 50}

-----------------------------------------------------------------------------
(* requestAnimationFrame / cancelAnimationFrame.  A handle is a positive
   integer that names one pending callback; the model hands out the smallest
   one not pending. *)

PendingIds(q) == {q[i].id : i \in 1..Len(q)}

NewHandle(q) == CHOOSE n \in 1..(Len(q) + 1) : n \notin PendingIds(q)

requestAnimationFrame(q, c) == Append(q, [id |-> NewHandle(q), config |-> c])

(* cancelAnimationFrame that cancels nothing: the cleanup of the effect
   leaves the old loop running. *)
cancelNothing(q, id) == q

cancelAnimationFrame(q, id) == SelectSeq(q, LAMBDA cb : cb.id # id)

-----------------------------------------------------------------------------
(* gameLoop *)

(* currentTime - previousTime.current, in milliseconds; the division by 1000
   is in the stamina unit. *)
deltaTime(currentTime, previous) == currentTime - previous

(* updaterSingle with the action bar clamped to the full bar instead of the
   exhaustion just computed. *)
updaterSingleNoCeiling(prev, c, pressed, dt) ==
    LET newExhaustion     == prev.exhaustion - c.exhaustionDecay * dt
        clampedExhaustion == Max(0, Min(Cap, newExhaustion))
        newAction         == IF pressed
                             THEN prev.action - c.actionStaminaDecay * dt
                             ELSE prev.action + ACTION_STAMINA_RECOVERY_RATE * dt
    IN  [exhaustion |-> clampedExhaustion, action |-> Max(0, Min(Cap, newAction))]

(* updaterSingle with the action bar clamped to the exhaustion the step
   started from. *)
updaterSingleStaleCeiling(prev, c, pressed, dt) ==
    LET newExhaustion     == prev.exhaustion - c.exhaustionDecay * dt
        clampedExhaustion == Max(0, Min(Cap, newExhaustion))
        newAction         == IF pressed
                             THEN prev.action - c.actionStaminaDecay * dt
                             ELSE prev.action + ACTION_STAMINA_RECOVERY_RATE * dt
    IN  [exhaustion |-> clampedExhaustion,
         action |-> Max(0, Min(prev.exhaustion, newAction))]

(* The updater gameLoop passes to setStamina, src/App.tsx. *)
updaterSingle(prev, c, pressed, dt) ==
    LET exhaustionChange  == -c.exhaustionDecay
        newExhaustion     == prev.exhaustion + exhaustionChange * dt
        clampedExhaustion == Max(0, Min(Cap, newExhaustion))
        newAction         == IF pressed
                             THEN prev.action - c.actionStaminaDecay * dt
                             ELSE prev.action + ACTION_STAMINA_RECOVERY_RATE * dt
        clampedAction     == Max(0, Min(clampedExhaustion, newAction))
    IN  [exhaustion |-> clampedExhaustion, action |-> clampedAction]

(* updaterDual with current clamped to the max the step started from. *)
updaterDualStaleCeiling(prev, c, pressed, dt) ==
    LET newMax     == Max(0, prev.max - c.maxStaminaDecay * dt)
        newCurrent == IF pressed
                      THEN prev.current - c.currentStaminaDecay * dt
                      ELSE prev.current + c.currentStaminaRecovery * dt
    IN  [max |-> newMax, current |-> Max(0, Min(newCurrent, prev.max))]

(* updaterDual with the drain and the recovery branch exchanged. *)
updaterDualSwapped(prev, c, pressed, dt) ==
    LET newMax     == Max(0, prev.max - c.maxStaminaDecay * dt)
        newCurrent == IF pressed
                      THEN prev.current + c.currentStaminaRecovery * dt
                      ELSE prev.current - c.currentStaminaDecay * dt
    IN  [max |-> newMax, current |-> Max(0, Min(newCurrent, newMax))]

(* updaterDual with the decay added to max instead of subtracted. *)
updaterDualGrow(prev, c, pressed, dt) ==
    LET newMax     == Max(0, prev.max + c.maxStaminaDecay * dt)
        newCurrent == IF pressed
                      THEN prev.current - c.currentStaminaDecay * dt
                      ELSE prev.current + c.currentStaminaRecovery * dt
    IN  [max |-> newMax, current |-> Max(0, Min(newCurrent, newMax))]

(* updaterDual reading the decay rate as  config.maxStaminaDecay || 1.5 :
   a rate of 0 falls back to the default. *)
updaterDualFalsyZero(prev, c, pressed, dt) ==
    LET decay      == IF c.maxStaminaDecay = 0 THEN 15 ELSE c.maxStaminaDecay
        newMax     == Max(0, prev.max - decay * dt)
        newCurrent == IF pressed
                      THEN prev.current - c.currentStaminaDecay * dt
                      ELSE prev.current + c.currentStaminaRecovery * dt
    IN  [max |-> newMax, current |-> Max(0, Min(newCurrent, newMax))]

(* updaterDual without the Math.max(0, ...) on max. *)
updaterDualNoFloor(prev, c, pressed, dt) ==
    LET newMax     == prev.max - c.maxStaminaDecay * dt
        newCurrent == IF pressed
                      THEN prev.current - c.currentStaminaDecay * dt
                      ELSE prev.current + c.currentStaminaRecovery * dt
    IN  [max |-> newMax, current |-> Max(0, Min(newCurrent, newMax))]

(* The updater gameLoop passes to setStamina, src/unnamed/part_000. *)
updaterDual(prev, c, pressed, dt) ==
    LET newMax     == Max(0, prev.max - c.maxStaminaDecay * dt)
        newCurrent == IF pressed
                      THEN prev.current - c.currentStaminaDecay * dt
                      ELSE prev.current + c.currentStaminaRecovery * dt
    IN  [max |-> newMax, current |-> Max(0, Min(newCurrent, newMax))]

(* steppedStamina without the early return of src/App.tsx: an unset baseline
   counts as timestamp 0. *)
steppedStaminaNoSkip(c, currentTime) ==
    LET previous == IF previousTime = Undefined THEN 0 ELSE previousTime[1]
    IN  IF variant = "single"
        THEN updaterSingle(stamina, c, isSpacePressedRef,
                           deltaTime(currentTime, previous))
        ELSE updaterDual(stamina, c, isSpacePressedRef,
                         deltaTime(currentTime, previous))

(* The stamina gameLoop commits when called with currentTime, and whether it
   commits at all: src/App.tsx returns early on the first frame. *)
steppedStamina(c, currentTime) ==
    IF variant = "single"
    THEN IF previousTime = Undefined
         THEN stamina
         ELSE updaterSingle(stamina, c, isSpacePressedRef,
                            deltaTime(currentTime, previousTime[1]))
    ELSE LET previous == IF previousTime = Undefined
                         THEN currentTime ELSE previousTime[1]
         IN  updaterDual(stamina, c, isSpacePressedRef,
                         deltaTime(currentTime, previous))

(* What the step charged to the primary bar before clamping. *)
chargedDecay(c, currentTime) ==
    IF previousTime = Undefined
    THEN 0
    ELSE DecayRate(c) * deltaTime(currentTime, previousTime[1])

(* gameLoop whose first-frame branch returns without requesting a frame. *)
nextFrameNotOnFirst(q, c) ==
    IF previousTime = Undefined THEN q ELSE requestAnimationFrame(q, c)

(* The callback list after gameLoop ran: on the first-frame path and on the
   normal path it requests a frame for itself. *)
nextFrame(q, c) == requestAnimationFrame(q, c)

gameLoop(currentTime) ==
    /\ scheduled # <<>>
    /\ LET cb == Head(scheduled)
           q  == Tail(scheduled)
       IN  /\ stamina' = steppedStamina(cb.config, currentTime)
           /\ Primary(stamina') <= Cap + MaxOvershoot * Point
           /\ previousTime' = <<currentTime>>
           /\ animationFrameId' = NewHandle(q)
           /\ scheduled' = nextFrame(q, cb.config)
           /\ decayed' = Max(0, Min(Cap, decayed + chargedDecay(cb.config, currentTime)))
    /\ now' = currentTime
    /\ regressions' = IF currentTime < now THEN regressions + 1 ELSE regressions
    /\ hist' = [op |-> "frame", pre |-> stamina, base |-> previousTime,
                twice |-> FALSE]
    /\ UNCHANGED <<variant, isSpacePressed, isSpacePressedRef, lastEdge, config>>

-----------------------------------------------------------------------------
(* resetStamina *)

(* resetTarget that restores the ceiling and refills the other bar only up
   to the ceiling it had. *)
resetTargetRefill ==
    IF variant = "single"
    THEN [exhaustion |-> Cap, action |-> stamina.exhaustion]
    ELSE [max |-> Cap, current |-> stamina.max]

(* The value resetStamina passes to setStamina. *)
resetTarget ==
    IF variant = "single"
    THEN [exhaustion |-> TOTAL_STAMINA * Point, action |-> TOTAL_STAMINA * Point]
    ELSE [max |-> TOTAL_STAMINA * Point, current |-> TOTAL_STAMINA * Point]

(* previousTime.current after resetStamina: src/App.tsx clears it,
   src/unnamed/part_000 does not touch it. *)
resetBaseline == IF variant = "single" THEN Undefined ELSE previousTime

(* resetStamina that also drops the input flag. *)
resetStaminaReleasesKey ==
    /\ stamina' = resetTarget
    /\ previousTime' = resetBaseline
    /\ isSpacePressed' = FALSE
    /\ isSpacePressedRef' = FALSE
    /\ decayed' = 0
    /\ hist' = [op |-> "reset", pre |-> stamina, base |-> previousTime,
                twice |-> hist.op = "reset"]
    /\ UNCHANGED <<variant, lastEdge, config, animationFrameId, scheduled, now,
                   regressions>>

resetStamina ==
    /\ stamina' = resetTarget
    /\ previousTime' = resetBaseline
    /\ decayed' = 0
    /\ hist' = [op |-> "reset", pre |-> stamina, base |-> previousTime,
                twice |-> hist.op = "reset"]
    /\ UNCHANGED <<variant, isSpacePressed, isSpacePressedRef, lastEdge, config,
                   animationFrameId, scheduled, now, regressions>>

-----------------------------------------------------------------------------
(* Key events.  setIsSpacePressed, then the effect of lines 59-61. *)

keyDownPressed(code, repeat) ==
    IF code = "Space" /\ ~repeat THEN TRUE ELSE isSpacePressed

(* handleKeyUp without the test of e.code: the release of any key counts. *)
keyUpPressedAnyKey(code) == FALSE

keyUpPressed(code) == IF code = "Space" THEN FALSE ELSE isSpacePressed

handleKeyDown(code, repeat) ==
    /\ isSpacePressed' = keyDownPressed(code, repeat)
    /\ isSpacePressedRef' = isSpacePressed'
    /\ lastEdge' = IF code = "Space" /\ ~repeat THEN TRUE ELSE lastEdge
    /\ hist' = [op |-> "keydown", pre |-> stamina, base |-> previousTime,
                twice |-> FALSE]
    /\ UNCHANGED <<variant, stamina, config, previousTime, animationFrameId,
                   scheduled, now, regressions, decayed>>

handleKeyUp(code) ==
    /\ isSpacePressed' = keyUpPressed(code)
    /\ isSpacePressedRef' = isSpacePressed'
    /\ lastEdge' = IF code = "Space" THEN FALSE ELSE lastEdge
    /\ hist' = [op |-> "keyup", pre |-> stamina, base |-> previousTime,
                twice |-> FALSE]
    /\ UNCHANGED <<variant, stamina, config, previousTime, animationFrameId,
                   scheduled, now, regressions, decayed>>

-----------------------------------------------------------------------------
(* handleConfigChange.  setConfig gives a new config object, so the render
   makes a new gameLoop and the effect of the last useEffect runs again: its
   cleanup cancels the pending frame and clears previousTime, its body
   requests a frame for the new gameLoop. *)

(* An effect cleanup that leaves previousTime.current as it is. *)
restartBaselineKept == previousTime

(* previousTime.current after the cleanup of the loop effect. *)
restartBaseline == Undefined

(* A gameLoop made once (useCallback with no dependency): it keeps the config
   of the render before the edit. *)
gameLoopClosureStale(newConfig) == config

(* The config the gameLoop of a render closes over: useCallback depends on
   config, so it is the config of that render. *)
gameLoopClosure(newConfig) == newConfig

handleConfigChange(name, value) ==
    /\ value # config[name]
    /\ config' = [config EXCEPT ![name] = value]
    /\ LET q == IF animationFrameId # 0
                THEN cancelAnimationFrame(scheduled, animationFrameId)
                ELSE scheduled
       IN  /\ animationFrameId' = NewHandle(q)
           /\ scheduled' = requestAnimationFrame(q, gameLoopClosure(config'))
    /\ previousTime' = restartBaseline
    /\ hist' = [op |-> "config", pre |-> stamina, base |-> previousTime,
                twice |-> FALSE]
    /\ UNCHANGED <<variant, stamina, isSpacePressed, isSpacePressedRef, lastEdge,
                   now, regressions, decayed>>

-----------------------------------------------------------------------------
(* The state after the first render and its effects: the frame loop is
   started, nothing has run. *)

Init ==
    /\ variant \in Variants
    /\ stamina = FullStamina
    /\ isSpacePressed = FALSE
    /\ isSpacePressedRef = FALSE
    /\ lastEdge = FALSE
    /\ config = DefaultConfig
    /\ previousTime = Undefined
    /\ animationFrameId = 1
    /\ scheduled = <<[id |-> 1, config |-> DefaultConfig]>>
    /\ now = 0
    /\ regressions = 0
    /\ hist = [op |-> "init", pre |-> FullStamina, base |-> Undefined,
               twice |-> FALSE]
    /\ decayed = 0

(* The host delivers a frame: timestamps never go back. *)
FrameStep == \E t \in Times : t >= now /\ gameLoop(t)

(* A host whose timestamps may go back. *)
FrameAnyStep ==
    \E t \in Times : (t < now => regressions < MaxRegressions) /\ gameLoop(t)

ResetStep == resetStamina

KeyDownStep == \E code \in KeyCodes, repeat \in BOOLEAN : handleKeyDown(code, repeat)

KeyUpStep == \E code \in KeyCodes : handleKeyUp(code)

ConfigStep ==
    \E name \in SliderNames : \E value \in SliderValues(name) :
        handleConfigChange(name, value)

ConfigWideStep ==
    \E name \in SliderNames : \E value \in WideValues(name) :
        handleConfigChange(name, value)

Next == FrameStep \/ ResetStep \/ KeyDownStep \/ KeyUpStep \/ ConfigStep

Spec == Init /\ [][Next]_vars

(* The host calls a requested frame callback at its next frame.  Key events
   are left out here: they touch neither the callback list nor the baseline. *)
NextLive == FrameStep \/ ResetStep \/ ConfigStep

SpecLive == Init /\ [][NextLive]_vars /\ WF_vars(FrameStep)

(* The sliders are left alone here: the defaults are enough to show what a
   timestamp that goes back does. *)
NextRegress == FrameAnyStep \/ ResetStep \/ KeyDownStep \/ KeyUpStep

SpecRegress == Init /\ [][NextRegress]_vars

NextWide == FrameStep \/ ResetStep \/ KeyDownStep \/ KeyUpStep \/ ConfigWideStep

SpecWide == Init /\ [][NextWide]_vars

-----------------------------------------------------------------------------
(* Reading the last operation *)

(* The last operation was a frame callback. *)
Stepped == hist.op = "frame"

(* ... and it found a baseline, so it charged the time since that baseline. *)
Charged == Stepped /\ hist.base # Undefined

(* The elapsed time the last frame callback charged, in milliseconds. *)
Elapsed == previousTime[1] - hist.base[1]

(* secondary before any clamp, as the claims state it. *)
RawSecondary ==
    IF isSpacePressedRef
    THEN Secondary(hist.pre) - DrainRate(config) * Elapsed
    ELSE Secondary(hist.pre) + RecoveryRate(config) * Elapsed

-----------------------------------------------------------------------------
(* C1: in every reachable state, with rates on their sliders and frame
   timestamps that never go back, 0 <= secondary <= primary <= CAP. *)
C1_StaminaInvariant ==
    /\ 0 <= Secondary(stamina)
    /\ Secondary(stamina) <= Primary(stamina)
    /\ Primary(stamina) <= Cap

C1_Witness ==
    /\ Charged
    /\ 0 < Secondary(stamina)
    /\ Secondary(stamina) < Primary(stamina)
    /\ Primary(stamina) < Cap
    /\ Secondary(stamina) # Secondary(hist.pre)

(* C2: a frame callback that finds the baseline unset leaves the stamina as
   it was and records its timestamp as the baseline. *)
C2_FirstFrameNoOp ==
    (Stepped /\ hist.base = Undefined) =>
        /\ stamina = hist.pre
        /\ previousTime = <<now>>

C2_Witness ==
    /\ Stepped
    /\ hist.base = Undefined
    /\ stamina = FullStamina
    /\ decayed = 0
    /\ now > 0
    /\ isSpacePressedRef
    /\ config # DefaultConfig

(* C3: reset sets both bars to CAP and clears the baseline, and the frame
   callback that follows a reset leaves the bars at CAP. *)
C3_ResetThenStep ==
    [][ /\ hist'.op = "reset" =>
            stamina' = FullStamina /\ previousTime' = Undefined
        /\ (hist.op = "reset" /\ hist'.op = "frame") =>
            stamina' = FullStamina ]_vars

(* C4: a frame callback whose timestamp is before the baseline leaves both
   bars unchanged. *)
C4_RegressionClamped ==
    (Charged /\ Elapsed < 0) => stamina = hist.pre

(* C5: with any rate values, also ones no slider position gives, the state
   after every operation satisfies 0 <= secondary <= primary <= CAP. *)
C5_ValidForAnyRates ==
    /\ 0 <= Secondary(stamina)
    /\ Secondary(stamina) <= Primary(stamina)
    /\ Primary(stamina) <= TOTAL_STAMINA * Point

(* C6: after every frame callback secondary is at most the primary of the
   same commit; and when the input is inactive and primary has decayed below
   the secondary the step started from, secondary equals the new primary. *)
C6_CeilingCoupling ==
    Stepped =>
        /\ Secondary(stamina) <= Primary(stamina)
        /\ (~isSpacePressedRef /\ Primary(stamina) < Secondary(hist.pre)) =>
               Secondary(stamina) = Primary(stamina)

C6_Witness ==
    /\ Charged
    /\ ~isSpacePressedRef
    /\ RecoveryRate(config) > 0
    /\ 0 < Primary(stamina)
    /\ Primary(stamina) < Secondary(hist.pre)
    /\ Secondary(stamina) = Primary(stamina)

(* C7: in a step where no clamp binds, secondary changes by -drain*elapsed
   when the input is active and by +recovery*elapsed when it is not. *)
C7_DrainRecover ==
    (Charged /\ 0 <= RawSecondary /\ RawSecondary <= Primary(stamina)) =>
        Secondary(stamina) = RawSecondary

(* 70 -> 90 in one second with recovery 20, input inactive. *)
C7_Witness ==
    /\ Charged
    /\ variant = "dual"
    /\ ~isSpacePressedRef
    /\ config.currentStaminaDecay = 300
    /\ config.currentStaminaRecovery = 200
    /\ Elapsed = MsPerSecond
    /\ Secondary(hist.pre) = 70 * Point
    /\ Secondary(stamina) = 90 * Point

(* C8: a frame callback with the input inactive and a positive decay rate
   never raises primary, nor does anything else but reset. *)
C8_DecayMonotone ==
    [][ (/\ hist'.op # "reset"
         /\ hist'.op = "frame" => (~isSpacePressedRef /\ DecayRate(config) > 0))
        => Primary(stamina') <= Primary(stamina) ]_vars

C8_Witness ==
    /\ Charged
    /\ ~isSpacePressedRef
    /\ DecayRate(config) > 0
    /\ Primary(stamina) < Primary(hist.pre)
    /\ Primary(hist.pre) < Cap

(* C9: once the decay charged since construction or the last reset reaches
   the full bar, and after any single step whose decay*elapsed reaches the
   primary it started from, primary = 0 and secondary = 0. *)
C9_FullDecay ==
    /\ decayed = Cap =>
           Primary(stamina) = 0 /\ Secondary(stamina) = 0
    /\ (Charged /\ DecayRate(config) * Elapsed >= Primary(hist.pre)) =>
           Primary(stamina) = 0 /\ Secondary(stamina) = 0

(* The bar emptied over several steps, the last one with the input inactive
   and secondary above zero. *)
C9_Witness ==
    /\ Charged
    /\ decayed = Cap
    /\ ~isSpacePressedRef
    /\ RecoveryRate(config) > 0
    /\ Primary(hist.pre) < Cap
    /\ Secondary(hist.pre) > 0
    /\ Primary(stamina) = 0
    /\ Secondary(stamina) = 0

(* C10: a reset that follows a reset changes neither the bars nor the
   baseline. *)
C10_ResetIdempotent ==
    [][ (hist.op = "reset" /\ hist'.op = "reset") =>
            (stamina' = stamina /\ previousTime' = previousTime) ]_vars

C10_Witness ==
    /\ hist.op = "reset"
    /\ hist.twice
    /\ hist.base # Undefined

(* C11: with a decay rate of 0 a frame callback leaves primary exactly as
   it was, whatever the elapsed time. *)
C11_ZeroDecayKeepsPrimary ==
    (Stepped /\ DecayRate(config) = 0) => Primary(stamina) = Primary(hist.pre)

C11_Witness ==
    /\ Charged
    /\ DecayRate(config) = 0
    /\ Elapsed > MsPerSecond
    /\ Primary(stamina) = Cap
    /\ Secondary(stamina) < Secondary(hist.pre)

(* C12: reset can be called in every state, and changes neither the config
   nor the input flag. *)
C12_ResetFrame ==
    [][ /\ ENABLED resetStamina
        /\ hist'.op = "reset" =>
              /\ config' = config
              /\ isSpacePressed' = isSpacePressed
              /\ isSpacePressedRef' = isSpacePressedRef ]_vars

C12_Witness ==
    /\ hist.op = "reset"
    /\ hist.pre # FullStamina
    /\ isSpacePressedRef
    /\ config # DefaultConfig

(* C13: the flag a frame callback reads is the one the last press or
   release of Space asked for (a repeat or another key changes nothing), and
   a step that charges time drains when that edge was a press and recovers
   when it was a release. *)
C13_LastEdgeWins ==
    /\ isSpacePressedRef = lastEdge
    /\ Charged =>
           Secondary(stamina) =
               Max(0, Min(Primary(stamina),
                          IF lastEdge
                          THEN Secondary(hist.pre) - DrainRate(config) * Elapsed
                          ELSE Secondary(hist.pre) + RecoveryRate(config) * Elapsed))

C13_Witness ==
    /\ Charged
    /\ lastEdge
    /\ Elapsed > 0
    /\ DrainRate(config) > 0
    /\ 0 < Secondary(stamina)
    /\ Secondary(stamina) < Secondary(hist.pre)
    /\ Secondary(stamina) < Primary(stamina)

(* C14: at most one frame callback is pending at any time, and it is the
   one animationFrameId names. *)
C14_OneLoop ==
    /\ Len(scheduled) <= 1
    /\ \A i \in 1..Len(scheduled) : scheduled[i].id = animationFrameId

(* A loop that had run was torn down by a slider edit and started again. *)
C14_Witness ==
    /\ hist.op = "config"
    /\ hist.base # Undefined
    /\ Len(scheduled) = 1
    /\ scheduled[1].config = config
    /\ scheduled[1].config # DefaultConfig

(* C15: a slider edit stops and restarts the loop and leaves the baseline
   unset, and the frame callback that follows it leaves the stamina as it was
   and only records its timestamp. *)
C15_RestartDropsBaseline ==
    [][ /\ hist'.op = "config" => previousTime' = Undefined
        /\ (hist.op = "config" /\ hist'.op = "frame") =>
               (stamina' = stamina /\ previousTime' = <<now'>>) ]_vars

(* The first frame after a restart, later than the last step before it, with
   a bar that is decaying. *)
C15_Witness ==
    /\ Stepped
    /\ hist.base = Undefined
    /\ DecayRate(config) > 0
    /\ Primary(stamina) < Cap
    /\ Secondary(stamina) < Primary(stamina)
    /\ now > MsPerSecond
    /\ stamina = hist.pre

(* C16: the frame callback that runs closed over the config of the last
   edit, and running it does not change the config. *)
C16_FreshConfig ==
    [][ hist'.op = "frame" =>
            /\ Head(scheduled).config = config
            /\ config' = config ]_vars

C16_Witness ==
    /\ Charged
    /\ Elapsed > 0
    /\ config # DefaultConfig
    /\ Head(scheduled).config = config
    /\ stamina # hist.pre

(* C17: once primary is 0, every step other than a reset leaves primary and
   secondary at 0, whatever the input flag and the rates on the sliders. *)
C17_ZeroAbsorbing ==
    [][ (Primary(stamina) = 0 /\ hist'.op # "reset") =>
            (Primary(stamina') = 0 /\ Secondary(stamina') = 0) ]_vars

(* A step that charged time to an empty bar, input inactive, recovery on. *)
C17_Witness ==
    /\ Charged
    /\ Elapsed > 0
    /\ Primary(hist.pre) = 0
    /\ ~isSpacePressedRef
    /\ RecoveryRate(config) > 0
    /\ DecayRate(config) > 0
    /\ Primary(stamina) = 0
    /\ Secondary(stamina) = 0

(* C18: a frame callback is pending in every state, and, the host running
   pending callbacks, steps that find a baseline keep occurring unless slider
   edits or resets keep arriving. *)
C18_LoopNeverStalls ==
    /\ [](scheduled # <<>>)
    /\ []<>(hist.op \in {"config", "reset"} \/ Charged)

(* A step that found the baseline set by the first frame after a restart. *)
C18_Witness ==
    /\ Charged
    /\ Elapsed > 0
    /\ config # DefaultConfig
    /\ hist.base # <<0>>
    /\ scheduled # <<>>

====
